---- MODULE Spec2Model ----
(***************************************************************************)
(* String-art generator (StringArtGenerator component).                    *)
(*                                                                         *)
(* The model follows the component's generation code: the pin layout       *)
(* (calculateNailPositions), the line rasterizer (getLinePixels), the      *)
(* line score (calculateLineScore) and the greedy builder                  *)
(* (generateStringArt), an async function that runs one macrotask at a     *)
(* time and gives the thread back at its `await`.                          *)
(*                                                                         *)
(* The preview.  A handler, the render it causes and the effects that run  *)
(* after that render are one step.  The effects run in the order the       *)
(* component declares them: the render effect draws onto the canvas        *)
(* before the two effects that reset lastRenderedStepRef and the memo of   *)
(* the pin layout.  State set by the Generate click before the first       *)
(* `await` is rendered together with the first published path.             *)
(*                                                                         *)
(* Specifications.  Spec is generation alone; SpecFair adds the fairness   *)
(* of the timer and of the running invocation; SpecUI adds the controls    *)
(* of the preview; SpecPure applies the pure functions to bounded inputs.  *)
(*                                                                         *)
(* Numbers.  Darkness values are 255 - (R+G+B)/3, so they are kept in      *)
(* thirds: a stored value v stands for v / Scale.  Pin coordinates are     *)
(* i * perimeter / count, so they are kept as numerators over the          *)
(* denominator count.  Scores are fractions <<total, count>>.  The         *)
(* Float32Array rounding of stored darkness values is not modelled.        *)
(***************************************************************************)
EXTENDS Integers, Sequences, FiniteSets, TLC

VARIABLES
    canvasWidth,    \* width of the preview canvas, and of the image data
    canvasHeight,   \* height of the preview canvas, and of the image data
    nailCount,      \* useMemo nailCount
    stringCount,    \* useState stringCount
    imageData,      \* useState imageData (loaded = FALSE models null)
    isProcessing,   \* useState isProcessing
    processingRef,  \* processingRef.current
    progress,       \* useState progress
    stringPath,     \* useState stringPath
    currentStep,    \* useState currentStep
    isPlaying,      \* useState isPlaying
    showImage,      \* useState showImage
    lineOpacity,    \* useState lineOpacity, in hundredths
    stringColor,    \* useState stringColor
    backgroundColor,        \* useState backgroundColor
    lastRenderedStepRef,    \* lastRenderedStepRef.current
    nailPositionsCache,     \* nailPositionsCache.current ({} models null)
    nailPositionsCacheKey,  \* nailPositionsCacheKey.current
    canvas,         \* what the preview canvas shows
    controls,       \* how often a control of the preview has been used
    runs,           \* the invocations of generateStringArt and their locals
    active,         \* the invocation that holds the thread, 0 when none does
    probe           \* argument and result of a pure function under test

vars == <<canvasWidth, canvasHeight, nailCount, stringCount, imageData,
          isProcessing, processingRef, progress, stringPath, currentStep,
          isPlaying, showImage, lineOpacity, stringColor, backgroundColor,
          lastRenderedStepRef, nailPositionsCache, nailPositionsCacheKey, canvas,
          controls, runs, active, probe>>

\* the four drawing settings
style == <<showImage, lineOpacity, stringColor, backgroundColor>>

\* what the effects of a commit write
shown == <<isPlaying, lastRenderedStepRef, nailPositionsCache, nailPositionsCacheKey,
           canvas>>

ui == <<canvasWidth, canvasHeight, nailCount, stringCount, imageData,
        isProcessing, processingRef, progress, stringPath, currentStep,
        style, shown, controls>>

---------------------------------------------------------------------------
(* Bounds of the model *)

MaxRuns == 2            \* invocations of generateStringArt in one behaviour
PreviewSize == 3        \* canvas width in pixels (400 in the component)
PreviewHeight == 2      \* canvas height in pixels
MaxCoord == 3           \* endpoints of the lines rasterized in isolation: -1..MaxCoord
MaxPixels == 2          \* length of the pixel sequences scored in isolation
MaxControls == 2        \* uses of the controls of the preview in one behaviour
MaxPins == 13           \* pin counts of the layouts computed in isolation: 1..MaxPins

(* Program constants *)

YIELD_EVERY == 50       \* iteration % 50 === 0
SUBTRACT == 25          \* darknessArray[..] - 25
Scale == 3              \* (R + G + B) / 3
WHITE == 255            \* 255 - brightness
DEFAULT_OPACITY == 15   \* useState(0.15), in hundredths

\* the settings <<nailCount, stringCount>> a behaviour starts from: no pin,
\* one pin, fewer than 10 pins (minimum gap 0), 10 pins (gap 1) and 20 pins
\* (gap 2); budgets of one and two iterations, and one that reaches the
\* second await
Settings == {<<0, 1>>, <<1, 2>>, <<6, 2>>, <<10, 1>>, <<20, 2>>,
             <<6, YIELD_EVERY + 2>>}

\* the test images
Patterns == {1, 4}

---------------------------------------------------------------------------
(* Arithmetic *)

Abs(a) == IF a < 0 THEN -a ELSE a

Min(a, b) == IF a < b THEN a ELSE b

Max(a, b) == IF a > b THEN a ELSE b

\* Math.round(num / den) for den > 0: halves round towards +Infinity
Round(num, den) == (2 * num + den) \div (2 * den)

\* a > b for fractions <<numerator, denominator>>; denominator 0 is -Infinity
ScoreGT(a, b) ==
    IF a[2] = 0 THEN FALSE
    ELSE IF b[2] = 0 THEN TRUE
    ELSE a[1] * b[2] > b[1] * a[2]

\* variant: let bestScore = 0
ZERO_SCORE == <<0, 1>>

NEG_INFINITY == <<-1, 0>>

---------------------------------------------------------------------------
(* Pin layout *)

\* variant: the bottom edge walked from left to right
NailAtBottomForward(width, height, count, i) ==
    LET currentDist == i * 2 * (width + height)
        w == width * count
        h == height * count
    IN  IF currentDist < w
          THEN [x |-> currentDist, y |-> 0, index |-> i]
        ELSE IF currentDist < w + h
          THEN [x |-> w, y |-> currentDist - w, index |-> i]
        ELSE IF currentDist < 2 * w + h
          THEN [x |-> currentDist - w - h, y |-> h, index |-> i]
        ELSE [x |-> 0, y |-> h - (currentDist - 2 * w - h), index |-> i]

\* Pin i of count pins on a width x height rectangle. x and y are in units
\* of 1/count: the pin is at (x / count, y / count).
NailAt(width, height, count, i) ==
    LET currentDist == i * 2 * (width + height)
        w == width * count
        h == height * count
    IN  IF currentDist < w
          THEN [x |-> currentDist, y |-> 0, index |-> i]
        ELSE IF currentDist < w + h
          THEN [x |-> w, y |-> currentDist - w, index |-> i]
        ELSE IF currentDist < 2 * w + h
          THEN [x |-> w - (currentDist - w - h), y |-> h, index |-> i]
        ELSE [x |-> 0, y |-> h - (currentDist - 2 * w - h), index |-> i]

\* variant: i <= count
NailLoopGuardInclusive(i, count) == i <= count

\* for (let i = 0; i < count; i++)
NailLoopGuard(i, count) == i < count

\* the loop of calculateNailPositions from pin i on: positions.push
RECURSIVE NailLoop(_, _, _, _, _)
NailLoop(width, height, count, i, positions) ==
    IF NailLoopGuard(i, count)
      THEN NailLoop(width, height, count, i + 1,
                    Append(positions, NailAt(width, height, count, i)))
    ELSE positions

\* the array calculateNailPositions returns, indexed from 0 as in the code
calculateNailPositions(width, height, count) ==
    LET positions == NailLoop(width, height, count, 0, << >>)
    IN  [i \in 0..(Len(positions) - 1) |-> positions[i + 1]]

\* variant: `${width}-${count}`
NailCacheKeyNoHeight(width, height, count) ==
    ToString(width) \o "-" \o ToString(count)

\* `${width}-${height}-${count}`
NailCacheKey(width, height, count) ==
    ToString(width) \o "-" \o ToString(height) \o "-" \o ToString(count)

\* nailPositionsCache.current = null; nailPositionsCacheKey.current = ''
NoMemo == [cache |-> {}, key |-> ""]

\* the two refs of the memo
Memo == [cache |-> nailPositionsCache, key |-> nailPositionsCacheKey]

\* a call of the memoized calculateNailPositions with the refs as in
\* `memo`: the layout returned, and the refs after the call. An empty
\* array is truthy, so a cached layout of no pins is a hit as well.
Memoized(memo, width, height, count) ==
    LET cacheKey == NailCacheKey(width, height, count)
    IN  IF memo.key = cacheKey /\ memo.cache # {}
          THEN [positions |-> CHOOSE positions \in memo.cache : TRUE, memo |-> memo]
        ELSE
          LET positions == calculateNailPositions(width, height, count)
          IN  [positions |-> positions,
               memo |-> [cache |-> {positions}, key |-> cacheKey]]

---------------------------------------------------------------------------
(* Line rasterizer *)

\* the loop of getLinePixels ends after max(dx, dy) steps when it ends at
\* all; a loop that is still running after LineFuel steps is reported as
\* not terminated
LineFuel(dx, dy) == 2 * (dx + dy) + 2

\* variant: the sign of dy lost
StepXUnsigned(e2, dy) == e2 > dy

\* if (e2 > -dy): the step in x
StepX(e2, dy) == e2 > -dy

\* if (e2 < dx): the step in y
StepY(e2, dx) == e2 < dx

RECURSIVE LineLoop(_, _, _, _, _, _, _, _, _, _)
LineLoop(x, y, err, x1, y1, dx, dy, sx, sy, fuel) ==
    LET here == <<[x |-> x, y |-> y]>>
    IN  IF x = x1 /\ y = y1 THEN [pixels |-> here, terminated |-> TRUE]
        ELSE IF fuel = 0 THEN [pixels |-> here, terminated |-> FALSE]
        ELSE
          LET e2 == 2 * err
              stepX == StepX(e2, dy)
              errX == IF stepX THEN err - dy ELSE err
              xN == IF stepX THEN x + sx ELSE x
              stepY == StepY(e2, dx)
              errY == IF stepY THEN errX + dx ELSE errX
              yN == IF stepY THEN y + sy ELSE y
              rest == LineLoop(xN, yN, errY, x1, y1, dx, dy, sx, sy, fuel - 1)
          IN  [pixels |-> here \o rest.pixels, terminated |-> rest.terminated]

\* variant: every line taken to run towards larger coordinates
StepSignForward(a0, a1) == 1

\* variant: the comparison turned round
StepSignFlipped(a0, a1) == IF a0 > a1 THEN 1 ELSE -1

\* sx = x0 < x1 ? 1 : -1, sy = y0 < y1 ? 1 : -1
StepSign(a0, a1) == IF a0 < a1 THEN 1 ELSE -1

\* getLinePixels on integer arguments, with whether its loop ended
LineRun(x0, y0, x1, y1) ==
    LET dx == Abs(x1 - x0)
        dy == Abs(y1 - y0)
        sx == StepSign(x0, x1)
        sy == StepSign(y0, y1)
    IN  LineLoop(x0, y0, dx - dy, x1, y1, dx, dy, sx, sy, LineFuel(dx, dy))

getLinePixels(x0, y0, x1, y1) == LineRun(x0, y0, x1, y1).pixels

---------------------------------------------------------------------------
(* Darkness field *)

\* variant: pixel.x <= width
InBoundsInclusive(pixel, width, height) ==
    pixel.x >= 0 /\ pixel.x <= width /\ pixel.y >= 0 /\ pixel.y < height

\* pixel.x >= 0 && pixel.x < width && pixel.y >= 0 && pixel.y < height
InBounds(pixel, width, height) ==
    pixel.x >= 0 /\ pixel.x < width /\ pixel.y >= 0 /\ pixel.y < height

\* the loop of calculateLineScore from pixel k on; reads collects the
\* indices of imageArray that are read
RECURSIVE ScoreLoop(_, _, _, _, _, _)
ScoreLoop(pixels, k, imageArray, width, height, acc) ==
    IF k > Len(pixels) THEN acc
    ELSE
      LET pixel == pixels[k]
          idx == pixel.y * width + pixel.x
      IN  IF InBounds(pixel, width, height)
            THEN ScoreLoop(pixels, k + 1, imageArray, width, height,
                   [totalDarkness |-> acc.totalDarkness
                        + (IF idx \in DOMAIN imageArray THEN imageArray[idx] ELSE 0),
                    count |-> acc.count + 1,
                    reads |-> acc.reads \cup {idx}])
          ELSE ScoreLoop(pixels, k + 1, imageArray, width, height, acc)

ScoreRun(pixels, imageArray, width, height) ==
    ScoreLoop(pixels, 1, imageArray, width, height,
              [totalDarkness |-> 0, count |-> 0, reads |-> {}])

\* the score as a fraction
calculateLineScore(pixels, imageArray, width, height) ==
    LET r == ScoreRun(pixels, imageArray, width, height)
    IN  IF r.count > 0 THEN <<r.totalDarkness, r.count>> ELSE <<0, 1>>

\* variant: one array kept across invocations, filled by the first of them
InitDarknessKept(data, width, height) ==
    LET started == {r \in DOMAIN runs : runs[r].pc # "idle"}
        latest == CHOOSE r \in started : \A q \in started : q <= r
    IN  IF started = {}
          THEN [i \in 0..(width * height - 1) |->
                  Scale * WHITE - (data[i * 4] + data[i * 4 + 1] + data[i * 4 + 2])]
        ELSE runs[latest].darknessArray

\* darknessArray[i] = 255 - (data[4i] + data[4i+1] + data[4i+2]) / 3
InitDarkness(data, width, height) ==
    [i \in 0..(width * height - 1) |->
        Scale * WHITE - (data[i * 4] + data[i * 4 + 1] + data[i * 4 + 2])]

\* variant: no floor at 0
SubtractedUnclamped(value) == value - Scale * SUBTRACT

\* Math.max(0, value - 25)
Subtracted(value) == Max(0, value - Scale * SUBTRACT)

\* variant: no bounds test before the write
SubtractAtUnchecked(darknessArray, pixel, width, height) ==
    LET idx == pixel.y * width + pixel.x
    IN  IF idx \in DOMAIN darknessArray
          THEN [darknessArray EXCEPT ![idx] = Subtracted(darknessArray[idx])]
        ELSE darknessArray

\* the body of the subtraction loop for one pixel of the winning line
SubtractAt(darknessArray, pixel, width, height) ==
    LET idx == pixel.y * width + pixel.x
    IN  IF InBounds(pixel, width, height)
          THEN [darknessArray EXCEPT ![idx] = Subtracted(darknessArray[idx])]
        ELSE darknessArray

\* the subtraction loop over the winning line, from pixel k on
RECURSIVE SubtractLoop(_, _, _, _, _)
SubtractLoop(pixels, k, darknessArray, width, height) ==
    IF k > Len(pixels) THEN darknessArray
    ELSE SubtractLoop(pixels, k + 1,
                      SubtractAt(darknessArray, pixels[k], width, height),
                      width, height)

---------------------------------------------------------------------------
(* Image data *)

Palette == << <<255, 255, 255>>, <<0, 0, 0>>, <<10, 20, 40>>, <<200, 100, 30>> >>

\* colour of pixel p in test image k: image 1 is white (no darkness at
\* all), the others cycle through the palette, shifted by k
PixelColour(k, p) ==
    IF k = 1 THEN Palette[1]
    ELSE Palette[((p + k) % Len(Palette)) + 1]

\* the RGBA bytes getImageData returns for test image k
ImageOf(width, height, k) ==
    [loaded |-> TRUE, width |-> width, height |-> height,
     data |-> [j \in 0..(4 * width * height - 1) |->
                 IF j % 4 = 3 THEN 255 ELSE PixelColour(k, j \div 4)[(j % 4) + 1]]]

NoImage == [loaded |-> FALSE, width |-> 0, height |-> 0, data |-> << >>]

---------------------------------------------------------------------------
(* Greedy builder: the locals of one invocation of generateStringArt *)

Runs == 1..MaxRuns

EmptyCache == [k \in {} |-> << >>]

\* variant: `${currentNail}-${i}`
CacheKeyDirected(a, b) == <<a, b>>

\* `${Math.min(currentNail, i)}-${Math.max(currentNail, i)}`
CacheKey(a, b) == <<Min(a, b), Max(a, b)>>

\* Math.min(Math.abs(i - currentNail), nailCount - Math.abs(i - currentNail))
Distance(i, currentNail, count) ==
    Min(Abs(i - currentNail), count - Abs(i - currentNail))

\* Math.floor(nailCount * 0.1)
MinDistance(count) == count \div 10

\* variant: the comparison turned round
SkippedInverted(distance, minDistance) == distance > minDistance

\* if (distance < minDistance) continue
Skipped(distance, minDistance) == distance < minDistance

\* variant: score >= bestScore
BetterOrEqual(score, bestScore) == ~ScoreGT(bestScore, score)

\* if (score > bestScore)
Better(score, bestScore) == ScoreGT(score, bestScore)

\* variant: let bestNail = 0
SelectStartAtZero == [bestNail |-> 0, bestScore |-> NEG_INFINITY]

\* let bestNail = -1, bestScore = -Infinity
SelectStart == [bestNail |-> -1, bestScore |-> NEG_INFINITY]

\* the pixels the builder rasterizes for the line from pin a to pin b
NailLine(nails, count, a, b) ==
    getLinePixels(Round(nails[a].x, count), Round(nails[a].y, count),
                  Round(nails[b].x, count), Round(nails[b].y, count))

\* the pins the candidate loop does not skip
Candidates(run) ==
    {i \in 0..(run.nailCount - 1) :
        ~Skipped(Distance(i, run.currentNail, run.nailCount), run.minDistance)}

\* lineCache.get(cacheKey), or the fresh line when the cache has none. The
\* keys of one iteration differ from each other, so a hit can only come
\* from the cache as it is when the iteration starts.
CandidatePixels(run, i) ==
    LET cacheKey == CacheKey(run.currentNail, i)
    IN  IF cacheKey \in DOMAIN run.lineCache THEN run.lineCache[cacheKey]
        ELSE NailLine(run.nails, run.nailCount, run.currentNail, i)

\* the body of the candidate loop for pin i, from bestNail and bestScore st
SelectStep(i, run, st) ==
    IF Skipped(Distance(i, run.currentNail, run.nailCount), run.minDistance)
      THEN st
    ELSE
      LET score == calculateLineScore(CandidatePixels(run, i), run.darknessArray,
                                      run.width, run.height)
      IN  IF Better(score, st.bestScore)
            THEN [bestNail |-> i, bestScore |-> score]
          ELSE st

\* bestNail and bestScore after the candidate loop has handled pins 0..(n - 1)
RECURSIVE SelectLoop(_, _)
SelectLoop(n, run) ==
    IF n = 0 THEN SelectStart
    ELSE SelectStep(n - 1, run, SelectLoop(n - 1, run))

\* the cache after the candidate loop: lineCache.set for every miss
CacheAfter(run) ==
    [cacheKey \in DOMAIN run.lineCache
                    \cup {CacheKey(run.currentNail, i) : i \in Candidates(run)} |->
        IF cacheKey \in DOMAIN run.lineCache THEN run.lineCache[cacheKey]
        ELSE NailLine(run.nails, run.nailCount, run.currentNail,
                      IF cacheKey[1] = run.currentNail THEN cacheKey[2]
                      ELSE cacheKey[1])]

\* the two pins of a line, whatever its direction
PinPair(a, b) == IF a < b THEN <<a, b>> ELSE <<b, a>>

\* the pins of the candidate loop whose line is not in the cache:
\* getLinePixels is called for each of them
Misses(run) ==
    {i \in Candidates(run) : CacheKey(run.currentNail, i) \notin DOMAIN run.lineCache}

\* how often getLinePixels has been called for each pair of pins, after
\* the candidate loop
RasterizedAfter(run) ==
    LET missed == {PinPair(run.currentNail, i) : i \in Misses(run)}
    IN  [pair \in DOMAIN run.rasterized \cup missed |->
            (IF pair \in DOMAIN run.rasterized THEN run.rasterized[pair] ELSE 0)
            + (IF pair \in missed THEN 1 ELSE 0)]

Select(run) ==
    LET st == SelectLoop(run.nailCount, run)
    IN  [bestNail |-> st.bestNail, bestScore |-> st.bestScore,
         lineCache |-> CacheAfter(run), rasterized |-> RasterizedAfter(run)]

IdleRun ==
    [pc |-> "idle", width |-> 0, height |-> 0, nailCount |-> 0, stringCount |-> 0,
     darknessArray |-> << >>, nails |-> << >>, path |-> << >>, currentNail |-> 0,
     minDistance |-> 0, lineCache |-> EmptyCache, rasterized |-> EmptyCache,
     iteration |-> 0, data |-> << >>, subtracted |-> 0,
     prevDarkness |-> << >>, exit |-> "none", stopAt |-> -1, published |-> << >>]

\* the state of the locals when the loop is first entered
StartedRun ==
    [pc |-> "loop",
     width |-> imageData.width, height |-> imageData.height,
     nailCount |-> nailCount, stringCount |-> stringCount,
     darknessArray |-> InitDarkness(imageData.data, imageData.width, imageData.height),
     nails |-> Memoized(Memo, imageData.width, imageData.height, nailCount).positions,
     path |-> << >>, currentNail |-> 0,
     minDistance |-> MinDistance(nailCount),
     lineCache |-> EmptyCache, rasterized |-> EmptyCache, iteration |-> 0,
     data |-> imageData.data, subtracted |-> 0,
     prevDarkness |-> << >>, exit |-> "none", stopAt |-> -1, published |-> << >>]

\* variant: from and to exchanged
ConnectionSwapped(currentNail, bestNail) == [from |-> bestNail, to |-> currentNail]

\* path.push({ from: currentNail, to: bestNail })
Connection(currentNail, bestNail) == [from |-> currentNail, to |-> bestNail]

\* variant: path.unshift(connection)
Unshifted(path, connection) == <<connection>> \o path

\* path.push(connection)
Pushed(path, connection) == Append(path, connection)

\* variant: the await placed before the subtraction of the winner's line
AcceptedAwaitFirst(run, sel) ==
    LET cacheKey == CacheKey(run.currentNail, sel.bestNail)
        yields == run.iteration % YIELD_EVERY = 0
        path == Pushed(run.path, Connection(run.currentNail, sel.bestNail))
    IN  [run EXCEPT
           !.lineCache = sel.lineCache,
           !.rasterized = sel.rasterized,
           !.prevDarkness = run.darknessArray,
           !.darknessArray = IF yields THEN run.darknessArray
                             ELSE SubtractLoop(sel.lineCache[cacheKey], 1,
                                               run.darknessArray, run.width, run.height),
           !.subtracted = IF yields THEN run.subtracted ELSE run.subtracted + 1,
           !.path = path,
           !.published = IF yields THEN path ELSE run.published,
           !.currentNail = sel.bestNail,
           !.pc = IF yields THEN "await" ELSE "loop",
           !.iteration = IF yields THEN run.iteration ELSE run.iteration + 1]

\* the locals after the iteration of `run` that accepts bestNail of sel.
\* lineCache.get gives undefined for a key the cache does not hold, and
\* `for (const pixel of undefined)` throws: the invocation ends there
\* (pc "error") with everything else as it is.
Accepted(run, sel) ==
    LET cacheKey == CacheKey(run.currentNail, sel.bestNail)
        yields == run.iteration % YIELD_EVERY = 0
        path == Pushed(run.path, Connection(run.currentNail, sel.bestNail))
    IN  IF cacheKey \notin DOMAIN sel.lineCache
          THEN [run EXCEPT !.lineCache = sel.lineCache,
                           !.rasterized = sel.rasterized,
                           !.pc = "error"]
        ELSE
          [run EXCEPT
             !.lineCache = sel.lineCache,
             !.rasterized = sel.rasterized,
             !.prevDarkness = run.darknessArray,
             !.darknessArray = SubtractLoop(sel.lineCache[cacheKey], 1, run.darknessArray,
                                            run.width, run.height),
             !.subtracted = run.subtracted + 1,
             !.path = path,
             !.published = IF yields THEN path ELSE run.published,
             !.currentNail = sel.bestNail,
             !.pc = IF yields THEN "await" ELSE "loop",
             !.iteration = IF yields THEN run.iteration ELSE run.iteration + 1]

---------------------------------------------------------------------------
(* The preview canvas and the effects that run after a render *)

\* the values a render of the component reads
Props ==
    [stringPath |-> stringPath, currentStep |-> currentStep,
     canvasWidth |-> canvasWidth, canvasHeight |-> canvasHeight,
     nailCount |-> nailCount, image |-> imageData,
     showImage |-> showImage, lineOpacity |-> lineOpacity,
     stringColor |-> stringColor, backgroundColor |-> backgroundColor]

\* a canvas nothing was drawn on. fault tells whether a drawing loop threw:
\* "entry" on reading stringPath[i] beyond the end, "pin" on reading
\* nails[index] beyond the layout.
BlankCanvas == [background |-> "", image |-> << >>, strokes |-> << >>, fault |-> "none"]

\* the component is mounted: no effect has thrown
Mounted == canvas.fault = "none"

\* fillRect with the background colour, then the image if it is shown
Cleared(props) ==
    [background |-> props.backgroundColor,
     image |-> IF props.showImage /\ props.image.loaded THEN props.image.data ELSE << >>,
     strokes |-> << >>, fault |-> "none"]

\* currentStep > 0 ? currentStep : stringPath.length
TargetStep(props) ==
    IF props.currentStep > 0 THEN props.currentStep ELSE Len(props.stringPath)

\* moveTo(nails[line.from]), lineTo(nails[line.to]), stroke(): the end
\* points as numerators over the pin count, the colour and the opacity
Stroke(line, nails, props) ==
    [x0 |-> nails[line.from].x, y0 |-> nails[line.from].y,
     x1 |-> nails[line.to].x, y1 |-> nails[line.to].y, den |-> props.nailCount,
     strokeStyle |-> props.stringColor, globalAlpha |-> props.lineOpacity]

\* for (let i = from; i < targetStep; i++) { const line = stringPath[i]; ... }
RECURSIVE DrawLoop(_, _, _, _, _)
DrawLoop(i, targetStep, cv, nails, props) ==
    IF ~(i < targetStep) THEN cv
    ELSE IF ~(i < Len(props.stringPath)) THEN [cv EXCEPT !.fault = "entry"]
    ELSE
      LET line == props.stringPath[i + 1]
      IN  IF line.from \notin DOMAIN nails \/ line.to \notin DOMAIN nails
            THEN [cv EXCEPT !.fault = "pin"]
          ELSE DrawLoop(i + 1, targetStep,
                        [cv EXCEPT !.strokes = Append(@, Stroke(line, nails, props))],
                        nails, props)

\* the canvas after a full redraw of the first TargetStep connections with
\* the pin layout computed for the current pin count
FullRedraw(props) ==
    DrawLoop(0, TargetStep(props), Cleared(props),
             calculateNailPositions(props.canvasWidth, props.canvasHeight,
                                    props.nailCount),
             props)

\* the render effect, from the memo refs, lastRenderedStepRef.current =
\* last and the canvas cv: a full redraw, the connections after the last
\* one drawn, or nothing
RenderEffect(props, memo, last, cv) ==
    IF Len(props.stringPath) = 0
      THEN [memo |-> memo, last |-> last, canvas |-> cv]
    ELSE
      LET call == Memoized(memo, props.canvasWidth, props.canvasHeight, props.nailCount)
          targetStep == TargetStep(props)
          needsFullRedraw == last = 0 \/ targetStep < last
          drawn == IF needsFullRedraw
                     THEN DrawLoop(0, targetStep, Cleared(props), call.positions, props)
                   ELSE IF targetStep > last
                     THEN DrawLoop(last, targetStep, cv, call.positions, props)
                   ELSE cv
      IN  [memo |-> call.memo,
           last |-> IF drawn.fault = "none" /\ (needsFullRedraw \/ targetStep > last)
                      THEN targetStep
                    ELSE last,
           canvas |-> drawn]

\* The effects of the commit that follows a handler, in the order of their
\* declaration: the render effect, the effect that resets
\* lastRenderedStepRef, the effect that drops the memoized layout, the
\* overlay effect (which computes the layout again) and the animation
\* effect (which stops a playback that has reached the end). An effect
\* runs when one of its dependencies changed; pathSet and imageSet tell
\* that the handler called setStringPath (always with a new array) and
\* setImage, playing is the value of isPlaying the handler leaves.
Commit(pathSet, imageSet, playing) ==
    LET now == Props'
        layoutChanged == \/ now.canvasWidth # canvasWidth
                         \/ now.canvasHeight # canvasHeight
                         \/ now.nailCount # nailCount
        styleChanged == style' # style
        render == IF \/ pathSet \/ imageSet \/ layoutChanged \/ styleChanged
                     \/ now.currentStep # currentStep
                    THEN RenderEffect(now, Memo, lastRenderedStepRef, canvas)
                  ELSE [memo |-> Memo, last |-> lastRenderedStepRef, canvas |-> canvas]
        reset == IF pathSet \/ styleChanged THEN 0 ELSE render.last
        memo == IF layoutChanged
                  THEN Memoized(NoMemo, now.canvasWidth, now.canvasHeight,
                                now.nailCount).memo
                ELSE render.memo
    IN  /\ canvas' = render.canvas
        /\ lastRenderedStepRef' = IF layoutChanged THEN 0 ELSE reset
        /\ nailPositionsCache' = memo.cache
        /\ nailPositionsCacheKey' = memo.key
        /\ isPlaying' = (playing /\ now.currentStep < Len(now.stringPath))

---------------------------------------------------------------------------
(* Initial state and handlers *)

NoProbe == [fn |-> "none", pixels |-> << >>]

Init ==
    /\ canvasWidth = PreviewSize
    /\ canvasHeight = PreviewHeight
    /\ \E setting \in Settings : nailCount = setting[1] /\ stringCount = setting[2]
    /\ imageData = NoImage
    /\ isProcessing = FALSE
    /\ processingRef = FALSE
    /\ progress = 0
    /\ stringPath = << >>
    /\ currentStep = 0
    /\ isPlaying = FALSE
    /\ showImage = FALSE
    /\ lineOpacity = DEFAULT_OPACITY
    /\ stringColor = "#000000"
    /\ backgroundColor = "#ffffff"
    /\ lastRenderedStepRef = 0
    /\ nailPositionsCache = Memoized(NoMemo, canvasWidth, canvasHeight, nailCount).memo.cache
    /\ nailPositionsCacheKey = Memoized(NoMemo, canvasWidth, canvasHeight, nailCount).memo.key
    /\ canvas = BlankCanvas
    /\ controls = 0
    /\ runs = [r \in Runs |-> IdleRun]
    /\ active = 0
    /\ probe = NoProbe

\* handleImageUpload, img.onload
LoadImage(k) ==
    /\ active = 0
    /\ Mounted
    /\ imageData' = ImageOf(canvasWidth, canvasHeight, k)
    /\ UNCHANGED <<canvasWidth, canvasHeight, nailCount, stringCount, isProcessing,
                   processingRef, progress, stringPath, currentStep, style,
                   controls, runs, active, probe>>
    /\ Commit(FALSE, TRUE, isPlaying)

\* variant: no test of imageData
HasImageDataAlways == TRUE

\* imageData is not null: `if (!imageData) return`, disabled={!imageData}
HasImageData == imageData.loaded

\* generateStringArt from its first statement up to the loop, as
\* invocation r
GenerateCall(r) ==
    /\ isProcessing' = TRUE
    /\ processingRef' = TRUE
    /\ progress' = 0
    /\ stringPath' = << >>
    /\ currentStep' = 0
    /\ runs' = [runs EXCEPT ![r] = StartedRun]
    /\ nailPositionsCache' = Memoized(Memo, imageData.width, imageData.height,
                                      nailCount).memo.cache
    /\ nailPositionsCacheKey' = Memoized(Memo, imageData.width, imageData.height,
                                         nailCount).memo.key
    /\ active' = r
    /\ UNCHANGED <<canvasWidth, canvasHeight, nailCount, stringCount, imageData, style,
                   isPlaying, lastRenderedStepRef, canvas, controls>>

\* the Generate button, enabled while there is image data and showing
\* Generate while no run is processing
Generate(r) ==
    /\ active = 0
    /\ Mounted
    /\ ~isProcessing
    /\ HasImageData
    /\ runs[r].pc = "idle"
    /\ \A q \in Runs : q < r => runs[q].pc # "idle"
    /\ GenerateCall(r)
    /\ UNCHANGED probe

\* one iteration of the loop that appends a connection; at
\* iteration % 50 === 0 it publishes the path and awaits the timer
IterAccept(r) ==
    /\ active = r
    /\ Mounted
    /\ runs[r].pc = "loop"
    /\ runs[r].iteration < runs[r].stringCount
    /\ processingRef
    /\ LET run == runs[r]
           sel == Select(run)
           next == Accepted(run, sel)
       IN  /\ sel.bestNail # -1
           /\ runs' = [runs EXCEPT ![r] = next]
           /\ UNCHANGED <<canvasWidth, canvasHeight, nailCount, stringCount, imageData,
                          isProcessing, processingRef, currentStep, style, controls,
                          probe>>
           /\ IF next.pc = "await"
                THEN /\ progress' = Round(run.iteration * 100, run.stringCount)
                     /\ stringPath' = next.path
                     /\ Commit(TRUE, FALSE, isPlaying)
                ELSE UNCHANGED <<progress, stringPath, shown>>
           /\ active' = IF next.pc = "loop" THEN r ELSE 0

\* the code after the loop: setStringPath(path) ... processingRef.current = false
Finish(r, why, lineCache, rasterized) ==
    /\ runs' = [runs EXCEPT ![r] = [@ EXCEPT !.pc = "done", !.exit = why,
                                              !.lineCache = lineCache,
                                              !.rasterized = rasterized,
                                              !.published = runs[r].path]]
    /\ stringPath' = runs[r].path
    /\ progress' = 100
    /\ isProcessing' = FALSE
    /\ processingRef' = FALSE
    /\ active' = 0
    /\ UNCHANGED <<canvasWidth, canvasHeight, nailCount, stringCount, imageData,
                   currentStep, style, controls, probe>>
    /\ Commit(TRUE, FALSE, isPlaying)

\* iteration < stringCount fails
ExitBudget(r) ==
    /\ active = r
    /\ Mounted
    /\ runs[r].pc = "loop"
    /\ ~(runs[r].iteration < runs[r].stringCount)
    /\ Finish(r, "budget", runs[r].lineCache, runs[r].rasterized)

\* if (!processingRef.current) break
ExitCancelled(r) ==
    /\ active = r
    /\ Mounted
    /\ runs[r].pc = "loop"
    /\ runs[r].iteration < runs[r].stringCount
    /\ ~processingRef
    /\ Finish(r, "cancelled", runs[r].lineCache, runs[r].rasterized)

\* if (bestNail === -1) break
ExitNoCandidate(r) ==
    /\ active = r
    /\ Mounted
    /\ runs[r].pc = "loop"
    /\ runs[r].iteration < runs[r].stringCount
    /\ processingRef
    /\ LET sel == Select(runs[r])
       IN  /\ sel.bestNail = -1
           /\ Finish(r, "nocandidate", sel.lineCache, sel.rasterized)

\* variant: the promise of the await is never resolved
AwaitedNever(run) == run

\* the locals when the await returns: iteration++ and back to the loop test
Awaited(run) == [run EXCEPT !.pc = "loop", !.iteration = @ + 1]

\* the timer of the await fires
Resume(r) ==
    /\ active = 0
    /\ Mounted
    /\ runs[r].pc = "await"
    /\ runs' = [runs EXCEPT ![r] = Awaited(runs[r])]
    /\ active' = r
    /\ UNCHANGED <<ui, probe>>

\* the Stop button: stopProcessing. stopAt remembers, for each invocation
\* waiting at its await, the length of its path at its first request.
StopProcessing ==
    /\ active = 0
    /\ Mounted
    /\ isProcessing
    /\ imageData.loaded
    /\ processingRef' = FALSE
    /\ isProcessing' = FALSE
    /\ runs' = [r \in Runs |->
                  IF runs[r].pc = "await" /\ runs[r].stopAt = -1
                    THEN [runs[r] EXCEPT !.stopAt = Len(runs[r].path)]
                  ELSE runs[r]]
    /\ UNCHANGED <<canvasWidth, canvasHeight, nailCount, stringCount, imageData,
                   progress, stringPath, currentStep, style, shown, controls,
                   active, probe>>

Next ==
    \/ \E k \in Patterns : LoadImage(k)
    \/ \E r \in Runs : Generate(r)
    \/ \E r \in Runs : IterAccept(r)
    \/ \E r \in Runs : ExitBudget(r)
    \/ \E r \in Runs : ExitCancelled(r)
    \/ \E r \in Runs : ExitNoCandidate(r)
    \/ \E r \in Runs : Resume(r)
    \/ StopProcessing

Spec == Init /\ [][Next]_vars

\* a step of the invocation that holds the thread
RunSteps ==
    \E r \in Runs : \/ IterAccept(r)
                    \/ ExitBudget(r)
                    \/ ExitCancelled(r)
                    \/ ExitNoCandidate(r)

\* A timer set by setTimeout(resolve, 0) fires once the thread is free,
\* and an invocation that holds the thread takes its next step (the code
\* runs on). The second is weak fairness of RunSteps written out,
\* []<>~ENABLED <<A>>_vars \/ []<><<A>>_vars, with the enabling condition
\* of RunSteps given as the state predicate it amounts to: at its loop
\* test, holding the thread, an invocation can take one of the four steps.
Fairness ==
    /\ WF_vars(\E r \in Runs : Resume(r))
    /\ \/ []<>~(\E r \in Runs : active = r /\ runs[r].pc = "loop")
       \/ []<><<RunSteps>>_vars

SpecFair == Init /\ [][Next]_vars /\ Fairness

---------------------------------------------------------------------------
(* The controls of the preview: pin spacing, drawing settings, playback *)

\* what the handlers of the controls leave alone
generation == <<canvasWidth, canvasHeight, stringCount, imageData, isProcessing,
                processingRef, progress, stringPath, runs, active, probe>>

\* the pin counts the spacing and size controls switch between
SpacingCounts == {6, 10}

\* the values the drawing controls switch between
Opacities == {DEFAULT_OPACITY, 50}
Colours == {"#000000", "#ffffff"}

InitUI ==
    /\ Init
    /\ <<nailCount, stringCount>> \in {<<0, 1>>, <<6, 2>>, <<20, 2>>}

\* the spacing slider and presets, or a change of the physical size that
\* keeps the proportions: nailCount = floor(perimeterMm / nailSpacing)
SetNailCount(count) ==
    /\ active = 0
    /\ Mounted
    /\ controls < MaxControls
    /\ controls' = controls + 1
    /\ count # nailCount
    /\ nailCount' = count
    /\ UNCHANGED <<generation, currentStep, style>>
    /\ Commit(FALSE, FALSE, isPlaying)

\* the checkbox "Show source image"
SetShowImage(checked) ==
    /\ active = 0
    /\ Mounted
    /\ controls < MaxControls
    /\ controls' = controls + 1
    /\ checked # showImage
    /\ showImage' = checked
    /\ UNCHANGED <<generation, nailCount, currentStep, lineOpacity, stringColor,
                   backgroundColor>>
    /\ Commit(FALSE, FALSE, isPlaying)

\* the opacity slider
SetLineOpacity(value) ==
    /\ active = 0
    /\ Mounted
    /\ controls < MaxControls
    /\ controls' = controls + 1
    /\ value # lineOpacity
    /\ lineOpacity' = value
    /\ UNCHANGED <<generation, nailCount, currentStep, showImage, stringColor,
                   backgroundColor>>
    /\ Commit(FALSE, FALSE, isPlaying)

\* the colour input STRING
SetStringColor(value) ==
    /\ active = 0
    /\ Mounted
    /\ controls < MaxControls
    /\ controls' = controls + 1
    /\ value # stringColor
    /\ stringColor' = value
    /\ UNCHANGED <<generation, nailCount, currentStep, showImage, lineOpacity,
                   backgroundColor>>
    /\ Commit(FALSE, FALSE, isPlaying)

\* the colour input BACKGROUND
SetBackgroundColor(value) ==
    /\ active = 0
    /\ Mounted
    /\ controls < MaxControls
    /\ controls' = controls + 1
    /\ value # backgroundColor
    /\ backgroundColor' = value
    /\ UNCHANGED <<generation, nailCount, currentStep, showImage, lineOpacity,
                   stringColor>>
    /\ Commit(FALSE, FALSE, isPlaying)

\* the play/pause button, shown while the path is not empty
PlayPause ==
    /\ active = 0
    /\ Mounted
    /\ controls < MaxControls
    /\ controls' = controls + 1
    /\ Len(stringPath) > 0
    /\ currentStep' = IF ~isPlaying /\ currentStep >= Len(stringPath) THEN 0
                      ELSE currentStep
    /\ UNCHANGED <<generation, nailCount, style>>
    /\ Commit(FALSE, FALSE, ~isPlaying)

\* the rewind button
Rewind ==
    /\ active = 0
    /\ Mounted
    /\ controls < MaxControls
    /\ controls' = controls + 1
    /\ Len(stringPath) > 0
    /\ currentStep' = 0
    /\ UNCHANGED <<generation, nailCount, style>>
    /\ Commit(FALSE, FALSE, FALSE)

\* the skip-to-end button
SkipToEnd ==
    /\ active = 0
    /\ Mounted
    /\ controls < MaxControls
    /\ controls' = controls + 1
    /\ Len(stringPath) > 0
    /\ currentStep' = Len(stringPath)
    /\ UNCHANGED <<generation, nailCount, style>>
    /\ Commit(FALSE, FALSE, isPlaying)

\* the step slider is moved to value, one of min..max = 0..stringPath.length
MoveSlider(value) ==
    /\ active = 0
    /\ Mounted
    /\ controls < MaxControls
    /\ controls' = controls + 1
    /\ Len(stringPath) > 0
    /\ value \in 0..Len(stringPath)
    /\ currentStep' = value
    /\ UNCHANGED <<generation, nailCount, style>>
    /\ Commit(FALSE, FALSE, FALSE)

\* an animation frame of the playback: setCurrentStep(prev => ...)
Tick ==
    /\ active = 0
    /\ Mounted
    /\ UNCHANGED controls
    /\ isPlaying
    /\ currentStep' = IF currentStep >= Len(stringPath) THEN currentStep
                      ELSE currentStep + 1
    /\ UNCHANGED <<generation, nailCount, style>>
    /\ Commit(FALSE, FALSE, currentStep < Len(stringPath))

\* visibilitychange with document.hidden
HidePage ==
    /\ active = 0
    /\ Mounted
    /\ controls < MaxControls
    /\ controls' = controls + 1
    /\ isPlaying
    /\ UNCHANGED <<generation, nailCount, currentStep, style>>
    /\ Commit(FALSE, FALSE, FALSE)

NextUI ==
    \/ \E k \in Patterns \ {1} : LoadImage(k)
    \/ \E r \in Runs : Generate(r)
    \/ \E r \in Runs : IterAccept(r)
    \/ \E r \in Runs : ExitBudget(r)
    \/ \E r \in Runs : ExitCancelled(r)
    \/ \E r \in Runs : ExitNoCandidate(r)
    \/ \E r \in Runs : Resume(r)
    \/ StopProcessing
    \/ \E count \in SpacingCounts : SetNailCount(count)
    \/ \E checked \in BOOLEAN : SetShowImage(checked)
    \/ \E value \in Opacities : SetLineOpacity(value)
    \/ \E value \in Colours : SetStringColor(value)
    \/ \E value \in Colours : SetBackgroundColor(value)
    \/ PlayPause
    \/ Rewind
    \/ SkipToEnd
    \/ \E value \in 0..Len(stringPath) : MoveSlider(value)
    \/ Tick
    \/ HidePage

SpecUI == InitUI /\ [][NextUI]_vars

---------------------------------------------------------------------------
(* The pure functions in isolation: a behaviour makes one call of          *)
(* getLinePixels or of calculateLineScore on arguments drawn from bounded  *)
(* sets.                                                                   *)

ProbeCoords == -1..MaxCoord

\* pixels inside the field, and one step outside it on every side
ProbePixels == {[x |-> a, y |-> b] : a \in -1..PreviewSize, b \in -1..PreviewHeight}

\* fields of PreviewSize x PreviewHeight values: one whose values all
\* differ, and the darkness of the test images
ProbeFields ==
    {[i \in 0..(PreviewSize * PreviewHeight - 1) |-> 10 * (i + 1)]}
    \cup {InitDarkness(ImageOf(PreviewSize, PreviewHeight, k).data,
                       PreviewSize, PreviewHeight) : k \in Patterns}

\* widths and heights of the layouts computed in isolation
ProbeSizes == 1..MaxCoord

InitPure == Init /\ nailCount = 0

\* what a call of the memoized calculateNailPositions leaves alone
component == <<canvasWidth, canvasHeight, nailCount, stringCount, imageData,
               isProcessing, processingRef, progress, stringPath, currentStep,
               style, isPlaying, lastRenderedStepRef, canvas, controls>>

\* a call of the memoized calculateNailPositions(width, height, count),
\* after any number of such calls and of invalidations; hit tells whether
\* the layout came from the refs
ProbeMemo(width, height, count) ==
    /\ probe = NoProbe \/ probe.fn = "memoized"
    /\ LET call == Memoized(Memo, width, height, count)
       IN  /\ probe' = [fn |-> "memoized",
                        width |-> width, height |-> height, count |-> count,
                        hit |-> call.memo = Memo,
                        out |-> call.positions]
           /\ nailPositionsCache' = call.memo.cache
           /\ nailPositionsCacheKey' = call.memo.key
    /\ UNCHANGED <<component, runs, active>>

\* the effect that drops the memoized layout
ProbeInvalidate ==
    /\ probe.fn = "memoized"
    /\ nailPositionsCache' = NoMemo.cache
    /\ nailPositionsCacheKey' = NoMemo.key
    /\ UNCHANGED <<component, runs, active, probe>>

\* a call of generateStringArt as it is, whatever the button shows
ProbeGenerate(r) ==
    /\ probe = NoProbe
    /\ active = 0
    /\ runs[r].pc = "idle"
    /\ probe' = [fn |-> "generateStringArt", pixels |-> << >>]
    /\ IF HasImageData THEN GenerateCall(r)
       ELSE UNCHANGED <<ui, runs, active>>

\* a call calculateNailPositions(width, height, count)
ProbeNails(width, height, count) ==
    /\ probe = NoProbe
    /\ probe' = [fn |-> "calculateNailPositions",
                 width |-> width, height |-> height, count |-> count,
                 out |-> calculateNailPositions(width, height, count)]
    /\ UNCHANGED <<ui, runs, active>>

\* a call getLinePixels(x0, y0, x1, y1), and the call with the end points
\* exchanged
ProbeLine(x0, y0, x1, y1) ==
    /\ probe = NoProbe
    /\ probe' = [fn |-> "getLinePixels", x0 |-> x0, y0 |-> y0, x1 |-> x1, y1 |-> y1,
                 out |-> getLinePixels(x0, y0, x1, y1),
                 back |-> getLinePixels(x1, y1, x0, y0),
                 terminated |-> LineRun(x0, y0, x1, y1).terminated]
    /\ UNCHANGED <<ui, runs, active>>

\* the argument `pixels` of the call of calculateLineScore grows by a pixel
ProbePixel(pixel) ==
    /\ probe.fn = "none"
    /\ Len(probe.pixels) < MaxPixels
    /\ probe' = [probe EXCEPT !.pixels = Append(@, pixel)]
    /\ UNCHANGED <<ui, runs, active>>

\* a call calculateLineScore(pixels, imageArray, width, height)
ProbeScore(imageArray) ==
    /\ probe.fn = "none"
    /\ probe' = [fn |-> "calculateLineScore", pixels |-> probe.pixels,
                 imageArray |-> imageArray,
                 width |-> PreviewSize, height |-> PreviewHeight,
                 out |-> calculateLineScore(probe.pixels, imageArray,
                                            PreviewSize, PreviewHeight),
                 reads |-> ScoreRun(probe.pixels, imageArray,
                                    PreviewSize, PreviewHeight).reads]
    /\ UNCHANGED <<ui, runs, active>>

NextPure ==
    \/ \E x0 \in ProbeCoords, y0 \in ProbeCoords, x1 \in ProbeCoords, y1 \in ProbeCoords :
          ProbeLine(x0, y0, x1, y1)
    \/ \E pixel \in ProbePixels : ProbePixel(pixel)
    \/ \E imageArray \in ProbeFields : ProbeScore(imageArray)
    \/ \E width \in ProbeSizes, height \in ProbeSizes, count \in 1..MaxPins :
          ProbeNails(width, height, count)
    \/ \E width \in ProbeSizes, height \in ProbeSizes, count \in 0..MaxPins :
          ProbeMemo(width, height, count)
    \/ ProbeInvalidate
    \/ \E r \in Runs : ProbeGenerate(r)

SpecPure == InitPure /\ [][NextPure]_vars

---------------------------------------------------------------------------
(* Properties *)

\* min(|b - a|, count - |b - a|), the circular index distance of two pins
CircularDistance(a, b, count) ==
    LET d == IF a < b THEN b - a ELSE a - b
    IN  IF d < count - d THEN d ELSE count - d

\* the pins that pass the minimum-gap filter from pin `from`
LegalPins(from, count) ==
    {i \in 0..(count - 1) : CircularDistance(from, i, count) >= count \div 10}

Started(r) == runs[r].pc # "idle"

\* C1: the path of a run never holds more than stringCount connections,
\* and a run that has ended, was not ended by the cancellation flag and had
\* a pin passing the gap filter in each of its iterations holds exactly
\* stringCount connections, whatever the scores were (also when all are equal).
C1_PathLength ==
    \A r \in Runs :
        /\ Len(runs[r].path) <= runs[r].stringCount
        /\ ( /\ runs[r].pc = "done"
             /\ runs[r].exit # "cancelled"
             /\ LegalPins(runs[r].currentNail, runs[r].nailCount) # {} )
           => Len(runs[r].path) = runs[r].stringCount

\* a run on the white image (darkness 0 everywhere, so every score is 0)
\* that used its whole budget of two iterations
C1_Witness ==
    \E r \in Runs :
        /\ runs[r].pc = "done"
        /\ runs[r].exit = "budget"
        /\ runs[r].stringCount >= 2
        /\ Len(runs[r].path) = runs[r].stringCount
        /\ \A i \in DOMAIN runs[r].prevDarkness : runs[r].prevDarkness[i] = 0

\* C2: in every state the path of a run is a chain from pin 0: the first
\* connection leaves pin 0, each later one leaves the pin the one before
\* it reached, and currentNail is the pin the last one reached (0 for an
\* empty path).
C2_Chain ==
    \A r \in Runs :
        LET path == runs[r].path
        IN  /\ path # << >> => path[1].from = 0
            /\ \A k \in 2..Len(path) : path[k].from = path[k - 1].to
            /\ runs[r].currentNail = IF path = << >> THEN 0 ELSE path[Len(path)].to

\* a path of two connections over three different pins
C2_Witness ==
    \E r \in Runs :
        /\ Len(runs[r].path) >= 2
        /\ runs[r].path[1].to # 0
        /\ runs[r].path[2].to # runs[r].path[1].to
        /\ runs[r].path[2].to # 0

\* C3: every connection of a path joins two pins whose circular index
\* distance is at least floor(count * 0.1).
C3_MinimumGap ==
    \A r \in Runs :
        \A k \in 1..Len(runs[r].path) :
            CircularDistance(runs[r].path[k].from, runs[r].path[k].to, runs[r].nailCount)
                >= runs[r].nailCount \div 10

\* a path of two connections among 20 pins, where the minimum gap is 2
C3_Witness ==
    \E r \in Runs :
        /\ runs[r].nailCount \div 10 >= 2
        /\ Len(runs[r].path) >= 2

\* C4 (as claimed): the candidate loop scores no pin equal to the current
\* pin, and no connection of a path joins a pin to itself, whatever the
\* pin count.
C4_NoSelfConnection ==
    \A r \in Runs :
        /\ Started(r) => runs[r].currentNail \notin Candidates(runs[r])
        /\ \A k \in 1..Len(runs[r].path) : runs[r].path[k].to # runs[r].path[k].from

\* the line the run holds for the pair of pins a and b
HeldLine(r, a, b) == runs[r].lineCache[CacheKey(a, b)]

\* the score the last iteration of run r gave pin i: the line it holds
\* for the pair, on the darkness as it was when that iteration started
ScoreBefore(r, i) ==
    calculateLineScore(HeldLine(r, runs[r].path[Len(runs[r].path)].from, i),
                       runs[r].prevDarkness, runs[r].width, runs[r].height)

C6_StopKeepsLength ==
    \A r \in Runs :
        runs[r].stopAt # -1 => Len(runs[r].path) = runs[r].stopAt

\* C7: every value of the darkness field of a run lies in [0, 255].
C7_DarknessRange ==
    \A r \in Runs :
        \A i \in DOMAIN runs[r].darknessArray :
            /\ runs[r].darknessArray[i] >= 0
            /\ runs[r].darknessArray[i] <= Scale * WHITE

\* two connections in a row over the same pair of pins, the second of
\* which brought a value that was positive but below 25 down to 0
C7_Witness ==
    \E r \in Runs :
        /\ Len(runs[r].path) >= 2
        /\ LET n == Len(runs[r].path)
           IN  CacheKey(runs[r].path[n].from, runs[r].path[n].to)
                 = CacheKey(runs[r].path[n - 1].from, runs[r].path[n - 1].to)
        /\ \E i \in DOMAIN runs[r].darknessArray :
              /\ runs[r].prevDarkness[i] > 0
              /\ runs[r].prevDarkness[i] < Scale * SUBTRACT
              /\ runs[r].darknessArray[i] = 0

\* the sum of f over the finite set S
RECURSIVE SumOver(_, _)
SumOver(S, f) ==
    IF S = {} THEN 0
    ELSE LET e == CHOOSE e \in S : TRUE
         IN  f[e] + SumOver(S \ {e}, f)

\* the positions of `pixels` whose pixel lies inside a width x height field
Inside(pixels, width, height) ==
    {k \in 1..Len(pixels) : /\ 0 <= pixels[k].x /\ pixels[k].x < width
                            /\ 0 <= pixels[k].y /\ pixels[k].y < height}

\* C8: calculateLineScore returns the mean of field[y * width + x] over
\* exactly the pixels with 0 <= x < width and 0 <= y < height, reads no
\* index outside 0..width*height-1, and returns 0 when no pixel is inside.
C8_LineScore ==
    probe.fn = "calculateLineScore" =>
        LET inside == Inside(probe.pixels, probe.width, probe.height)
            values == [k \in inside |->
                         probe.imageArray[probe.pixels[k].y * probe.width
                                          + probe.pixels[k].x]]
        IN  /\ probe.reads \subseteq 0..(probe.width * probe.height - 1)
            /\ probe.out[2] > 0
            /\ IF inside = {} THEN probe.out[1] = 0
               ELSE probe.out[1] * Cardinality(inside)
                      = SumOver(inside, values) * probe.out[2]

\* a call on a pixel inside the field and a pixel outside it, with a
\* positive mean
C8_Witness ==
    /\ probe.fn = "calculateLineScore"
    /\ Len(probe.pixels) = 2
    /\ Cardinality(Inside(probe.pixels, probe.width, probe.height)) = 1
    /\ probe.out[1] > 0

\* the indices of the field that the pixels of a line inside it address
Cells(pixels, width, height) ==
    {pixels[k].y * width + pixels[k].x : k \in Inside(pixels, width, height)}

\* C9: after an iteration has accepted a connection, every cell under an
\* in-bounds pixel of the winning line holds max(0, old value - 25), and
\* every other cell holds its old value; the field has no other cell.
C9_SubtractFrame ==
    \A r \in Runs :
        runs[r].path # << >> =>
            LET last == runs[r].path[Len(runs[r].path)]
                cells == Cells(HeldLine(r, last.from, last.to),
                               runs[r].width, runs[r].height)
            IN  /\ DOMAIN runs[r].darknessArray = 0..(runs[r].width * runs[r].height - 1)
                /\ \A i \in DOMAIN runs[r].darknessArray :
                      runs[r].darknessArray[i] =
                          IF i \in cells
                            THEN (IF runs[r].prevDarkness[i] > Scale * SUBTRACT
                                    THEN runs[r].prevDarkness[i] - Scale * SUBTRACT
                                  ELSE 0)
                          ELSE runs[r].prevDarkness[i]

\* an accepted line with a pixel one column right of the field, in a row
\* above the last, while the first cell of the next row is dark and not
\* on the line: that cell kept its value, and a cell under the line lost
\* darkness
C9_Witness ==
    \E r \in Runs :
        /\ runs[r].path # << >>
        /\ LET last == runs[r].path[Len(runs[r].path)]
               line == HeldLine(r, last.from, last.to)
               cells == Cells(line, runs[r].width, runs[r].height)
           IN  /\ \E k \in 1..Len(line) :
                     /\ line[k].x = runs[r].width
                     /\ line[k].y >= 0
                     /\ line[k].y < runs[r].height - 1
                     /\ (line[k].y + 1) * runs[r].width \notin cells
                     /\ runs[r].prevDarkness[(line[k].y + 1) * runs[r].width] > 0
                     /\ runs[r].darknessArray[(line[k].y + 1) * runs[r].width]
                          = runs[r].prevDarkness[(line[k].y + 1) * runs[r].width]
               /\ \E i \in cells : runs[r].darknessArray[i] < runs[r].prevDarkness[i]

\* C10: for integer endpoints the loop of getLinePixels ends, and the
\* result starts with (x0, y0) and ends with (x1, y1); for equal endpoints
\* it is that one pixel.
C10_LineEndpoints ==
    probe.fn = "getLinePixels" =>
        /\ probe.terminated
        /\ Len(probe.out) >= 1
        /\ probe.out[1] = [x |-> probe.x0, y |-> probe.y0]
        /\ probe.out[Len(probe.out)] = [x |-> probe.x1, y |-> probe.y1]
        /\ (probe.x0 = probe.x1 /\ probe.y0 = probe.y1) => Len(probe.out) = 1

\* a line drawn towards smaller x and larger y, over more than two pixels
C10_Witness ==
    /\ probe.fn = "getLinePixels"
    /\ probe.x1 < probe.x0
    /\ probe.y1 > probe.y0
    /\ probe.terminated
    /\ Len(probe.out) > 2

\* C11: two consecutive pixels of a line returned by getLinePixels differ
\* by at most 1 in x and at most 1 in y, and differ in x or in y.
C11_Connected ==
    probe.fn = "getLinePixels" =>
        \A k \in 1..(Len(probe.out) - 1) :
            LET stepx == probe.out[k + 1].x - probe.out[k].x
                stepy == probe.out[k + 1].y - probe.out[k].y
            IN  /\ -1 <= stepx /\ stepx <= 1
                /\ -1 <= stepy /\ stepy <= 1
                /\ stepx # 0 \/ stepy # 0

\* a steep line of more than two pixels: some step changes y alone and
\* some step changes x and y together
C11_Witness ==
    /\ probe.fn = "getLinePixels"
    /\ Len(probe.out) > 2
    /\ \E k \in 1..(Len(probe.out) - 1) : probe.out[k + 1].x = probe.out[k].x
    /\ \E k \in 1..(Len(probe.out) - 1) :
          /\ probe.out[k + 1].x # probe.out[k].x
          /\ probe.out[k + 1].y # probe.out[k].y

\* C12: getLinePixels(A, B) and getLinePixels(B, A) have the same length.
C12_EqualLength ==
    probe.fn = "getLinePixels" => Len(probe.out) = Len(probe.back)

\* a line towards smaller x whose two directions do not visit the same
\* pixels, and still have the same length
C12_Witness ==
    /\ probe.fn = "getLinePixels"
    /\ probe.x1 < probe.x0
    /\ Len(probe.out) > 2
    /\ Len(probe.back) = Len(probe.out)
    /\ \E k \in 1..Len(probe.out) :
          probe.back[k] # probe.out[Len(probe.out) + 1 - k]

\* how often pixel p occurs in the sequence pixels
Occurrences(pixels, p) == Cardinality({k \in 1..Len(pixels) : pixels[k] = p})

\* C13 (as claimed): the line from B to A holds the same multiset of pixels
\* as the line from A to B.
C13_SameMultiset ==
    probe.fn = "getLinePixels" =>
        \A k \in 1..Len(probe.out) :
            Occurrences(probe.back, probe.out[k]) = Occurrences(probe.out, probe.out[k])

\* the line getLinePixels returns from pin a to pin b of run r
FreshLine(r, a, b) == NailLine(runs[r].nails, runs[r].nailCount, a, b)

\* C14: in a run getLinePixels is called at most once for each pair of
\* pins, whatever the direction, and the cache holds exactly the pairs it
\* was called for, under <<min, max>>; an entry a step adds is a line
\* between its two pins, and no step removes an entry of the cache of a
\* run or changes it.
C14_CacheOnce ==
    /\ [](\A r \in Runs :
            /\ \A pair \in DOMAIN runs[r].rasterized : runs[r].rasterized[pair] <= 1
            /\ DOMAIN runs[r].lineCache = DOMAIN runs[r].rasterized
            /\ \A key \in DOMAIN runs[r].lineCache : key[1] <= key[2])
    /\ [][\A r \in Runs :
            /\ \A key \in DOMAIN runs[r].lineCache :
                  /\ key \in DOMAIN runs'[r].lineCache
                  /\ runs'[r].lineCache[key] = runs[r].lineCache[key]
            /\ \A key \in DOMAIN runs'[r].lineCache \ DOMAIN runs[r].lineCache :
                  runs'[r].lineCache[key]
                    \in {NailLine(runs'[r].nails, runs'[r].nailCount, key[1], key[2]),
                         NailLine(runs'[r].nails, runs'[r].nailCount, key[2], key[1])}]_vars

\* a pair of pins whose line differs between the two directions was
\* stored when the line was first asked for from pin 0, and asked for
\* again from its other pin after a subtraction: the cache still holds
\* the first line
C14_Witness ==
    \E r \in Runs :
        /\ Len(runs[r].path) >= 2
        /\ LET to == runs[r].path[1].to
           IN  /\ to # 0
               /\ FreshLine(r, 0, to) # FreshLine(r, to, 0)
               /\ 0 \in LegalPins(to, runs[r].nailCount)
               /\ runs[r].lineCache[<<0, to>>] = FreshLine(r, 0, to)
               /\ runs[r].rasterized[<<0, to>>] = 1
        /\ runs[r].darknessArray # runs[r].prevDarkness

\* C15 (as claimed): the line cache of a run of count >= 1 pins never holds
\* more than count * (count - 1) / 2 entries.
C15_CacheBound ==
    \A r \in Runs :
        runs[r].nailCount >= 1 =>
            2 * Cardinality(DOMAIN runs[r].lineCache)
              <= runs[r].nailCount * (runs[r].nailCount - 1)

\* C16: calculateNailPositions(width, height, count) returns count pins,
\* the pin at position i has index i, and pin 0 is at (0, 0).
C16_PinCount ==
    probe.fn = "calculateNailPositions" =>
        /\ DOMAIN probe.out = 0..(probe.count - 1)
        /\ \A i \in DOMAIN probe.out : probe.out[i].index = i
        /\ probe.out[0].x = 0
        /\ probe.out[0].y = 0

\* a layout of more than one pin on a rectangle that is not a square
C16_Witness ==
    /\ probe.fn = "calculateNailPositions"
    /\ probe.width # probe.height
    /\ probe.count > 4
    /\ DOMAIN probe.out = 0..(probe.count - 1)
    /\ probe.out[probe.count - 1].index = probe.count - 1

\* the point p lies on the outline of the rectangle with corners (0, 0)
\* and (w, h)
OnPerimeter(p, w, h) ==
    /\ 0 <= p.x /\ p.x <= w
    /\ 0 <= p.y /\ p.y <= h
    /\ p.x = 0 \/ p.x = w \/ p.y = 0 \/ p.y = h

\* the way along the outline from (0, 0) to the point p on it, clockwise:
\* along the top to the right, down the right side, along the bottom to
\* the left, up the left side
ArcOf(p, w, h) ==
    IF p.y = 0 THEN p.x
    ELSE IF p.x = w THEN w + p.y
    ELSE IF p.y = h THEN w + h + (w - p.x)
    ELSE 2 * w + h + (h - p.y)

\* C17: pin i lies on the outline of the rectangle, i * 2 * (width +
\* height) / count along it clockwise from the top-left corner, so the
\* pins follow each other clockwise and no two are at the same point.
\* (Coordinates are in units of 1 / count.)
C17_ArcLength ==
    probe.fn = "calculateNailPositions" =>
        LET w == probe.width * probe.count
            h == probe.height * probe.count
        IN  /\ \A i \in DOMAIN probe.out :
                  /\ OnPerimeter(probe.out[i], w, h)
                  /\ ArcOf(probe.out[i], w, h) = i * 2 * (probe.width + probe.height)
            /\ \A i, j \in DOMAIN probe.out :
                  i < j => /\ ArcOf(probe.out[i], w, h) < ArcOf(probe.out[j], w, h)
                           /\ \/ probe.out[i].x # probe.out[j].x
                              \/ probe.out[i].y # probe.out[j].y

\* a layout on a rectangle that is not a square, with a pin inside each of
\* the four sides and a spacing that is not a whole number of pixels
C17_Witness ==
    /\ probe.fn = "calculateNailPositions"
    /\ probe.width # probe.height
    /\ (2 * (probe.width + probe.height)) % probe.count # 0
    /\ LET w == probe.width * probe.count
           h == probe.height * probe.count
       IN  /\ \E i \in DOMAIN probe.out : probe.out[i].y = 0 /\ 0 < probe.out[i].x
           /\ \E i \in DOMAIN probe.out : probe.out[i].x = w /\ 0 < probe.out[i].y
                                          /\ probe.out[i].y < h
           /\ \E i \in DOMAIN probe.out : probe.out[i].y = h /\ 0 < probe.out[i].x
                                          /\ probe.out[i].x < w
           /\ \E i \in DOMAIN probe.out : probe.out[i].x = 0 /\ 0 < probe.out[i].y
                                          /\ probe.out[i].y < h

\* run r is about to run the candidate loop, and no pin passes the
\* minimum-gap filter from its current pin
NoLegalPin(r) ==
    /\ active = r
    /\ runs[r].pc = "loop"
    /\ runs[r].iteration < runs[r].stringCount
    /\ processingRef
    /\ LegalPins(runs[r].currentNail, runs[r].nailCount) = {}

\* C18: an iteration in which no pin passes the minimum-gap filter ends
\* the run without an error, changes neither the darkness field nor the
\* path, and publishes the path built so far.
C18_NoCandidateExit ==
    [][\A r \in Runs :
          NoLegalPin(r) =>
              /\ runs'[r].pc = "done"
              /\ runs'[r].exit = "nocandidate"
              /\ runs'[r].path = runs[r].path
              /\ runs'[r].darknessArray = runs[r].darknessArray
              /\ stringPath' = runs[r].path]_vars

\* a run that ended in its first iteration because no pin passed the
\* filter, and published the empty path
C18_Witness ==
    \E r \in Runs :
        /\ runs[r].pc = "done"
        /\ runs[r].exit = "nocandidate"
        /\ runs[r].iteration = 0
        /\ LegalPins(runs[r].currentNail, runs[r].nailCount) = {}
        /\ runs[r].path = << >>
        /\ stringPath = << >>
        /\ ~isProcessing

\* the configuration a call of generateStringArt would read is invalid
InvalidConfiguration ==
    \/ nailCount <= 0
    \/ stringCount <= 0
    \/ imageData.width <= 0
    \/ imageData.height <= 0

\* C19 (as claimed): while the pin count, the budget, the width or the
\* height is not positive, no step starts a run (a call of
\* generateStringArt is rejected before any work), and so no step
\* publishes a path or progress for one or sets a processing flag.
C19_RejectsInvalid ==
    [][(InvalidConfiguration /\ imageData.loaded) =>
          /\ \A r \in Runs : runs[r].pc = "idle" => runs'[r].pc = "idle"
          /\ isProcessing' = isProcessing
          /\ processingRef' = processingRef
          /\ stringPath' = stringPath
          /\ progress' = progress]_vars

\* the sequence a is the start of the sequence b
IsPrefix(a, b) ==
    /\ Len(a) <= Len(b)
    /\ \A k \in 1..Len(a) : a[k] = b[k]

\* C20: the progress is a percentage in 0..100, and the path a run has
\* published last is the start of the path it holds, of every path it
\* publishes later and of its final path.
C20_StableSnapshots ==
    /\ [](/\ progress \in 0..100
          /\ \A r \in Runs :
                /\ IsPrefix(runs[r].published, runs[r].path)
                /\ runs[r].pc = "done" => runs[r].published = runs[r].path)
    /\ [][\A r \in Runs :
            runs[r].pc # "idle" => IsPrefix(runs[r].published, runs'[r].published)]_vars

\* a finished run that published its path at iterations 0 and 50 and at
\* its end, with connections that are not all the same
C20_Witness ==
    \E r \in Runs :
        /\ runs[r].pc = "done"
        /\ Len(runs[r].path) > YIELD_EVERY
        /\ runs[r].published = runs[r].path
        /\ stringPath = runs[r].path
        /\ progress = 100
        /\ runs[r].path[1] # runs[r].path[YIELD_EVERY + 1]

\* the invocation r ran to its end without taking the cancellation exit
Uncancelled(r) ==
    /\ runs[r].pc = "done"
    /\ runs[r].exit \in {"budget", "nocandidate"}

\* the invocations a and b read the same image data, pin count and budget
SameInputs(a, b) ==
    /\ runs[a].data = runs[b].data
    /\ runs[a].width = runs[b].width
    /\ runs[a].height = runs[b].height
    /\ runs[a].nailCount = runs[b].nailCount
    /\ runs[a].stringCount = runs[b].stringCount

\* C21: two uncancelled runs started with the same image data, pin count
\* and string count end with identical paths, whatever ran before or
\* beside them.
C21_SameInputsSamePath ==
    \A a, b \in Runs :
        (Uncancelled(a) /\ Uncancelled(b) /\ SameInputs(a, b))
            => runs[a].path = runs[b].path

\* two finished uncancelled runs on the same dark image whose paths of
\* more than one connection are equal, the later one started after the
\* earlier one had changed its own field
C21_Witness ==
    \E a, b \in Runs :
        /\ a < b
        /\ Uncancelled(a) /\ Uncancelled(b) /\ SameInputs(a, b)
        /\ Len(runs[b].path) > 1
        /\ runs[a].darknessArray # InitDarkness(runs[a].data, runs[a].width, runs[a].height)
        /\ runs[a].path = runs[b].path

\* the field of invocation r after the lines of the first n connections
\* of its path have been subtracted, in order, from its initial field
RECURSIVE Replayed(_, _)
Replayed(r, n) ==
    IF n = 0
      THEN InitDarkness(runs[r].data, runs[r].width, runs[r].height)
    ELSE SubtractLoop(runs[r].lineCache[CacheKey(runs[r].path[n].from, runs[r].path[n].to)],
                      1, Replayed(r, n - 1), runs[r].width, runs[r].height)

\* C23: at every yield point of a run (and at its end) the subtractions
\* applied to its field are exactly those of the connections of its path:
\* their number is the path length, the field is the initial field with
\* the line of every connection subtracted once in path order, and the
\* path published at the yield holds the connection just subtracted.
C23_YieldAfterSubtraction ==
    \A r \in Runs :
        runs[r].pc \in {"await", "done"} =>
            /\ runs[r].subtracted = Len(runs[r].path)
            /\ runs[r].darknessArray = Replayed(r, Len(runs[r].path))
            /\ runs[r].published = runs[r].path

\* a run waiting at its second yield point, 51 connections appended and
\* 51 lines subtracted, the last subtraction having changed the field
C23_Witness ==
    \E r \in Runs :
        /\ runs[r].pc = "await"
        /\ runs[r].iteration = YIELD_EVERY
        /\ runs[r].subtracted = YIELD_EVERY + 1
        /\ Len(runs[r].path) = YIELD_EVERY + 1
        /\ runs[r].darknessArray # InitDarkness(runs[r].data, runs[r].width, runs[r].height)

\* the invocation r has started and not reached its end
Live(r) == runs[r].pc \in {"loop", "await"}

\* the invocation r reaches its end in this step
Finishes(r) == runs[r].pc # "done" /\ runs'[r].pc = "done"

\* C26 (as claimed): at most one invocation has work left to do; an
\* invocation for which Stop was requested appends no connection and
\* publishes nothing but its path as it was at the request; and the end
\* of one invocation leaves the processing flag of another live
\* invocation as it is.
C26_OneLiveRun ==
    /\ [](\A a, b \in Runs :
            (Live(a) /\ Live(b) /\ runs[a].stopAt = -1 /\ runs[b].stopAt = -1) => a = b)
    /\ [][\A r \in Runs :
            runs[r].stopAt # -1 =>
                /\ runs'[r].path = runs[r].path
                /\ runs'[r].published # runs[r].published => Finishes(r)]_vars
    /\ [][\A r \in Runs :
            (Finishes(r) /\ \E q \in Runs : q # r /\ Live(q) /\ runs[q].stopAt = -1)
                => processingRef' = processingRef]_vars

\* the locals of a build with the inputs of invocation r before its
\* first iteration
FreshStart(r) ==
    [runs[r] EXCEPT !.darknessArray = InitDarkness(runs[r].data, runs[r].width,
                                                   runs[r].height),
                    !.path = << >>, !.currentNail = 0, !.lineCache = EmptyCache]

\* the locals after n iterations of a build that starts from `start` and
\* calls getLinePixels from the current pin to the candidate pin for every
\* candidate of every iteration: no line is ever taken from a cache
RECURSIVE FreshBuild(_, _)
FreshBuild(start, n) ==
    IF n = 0 THEN start
    ELSE
      LET prev == FreshBuild(start, n - 1)
          st == SelectLoop(prev.nailCount, prev)
      IN  IF st.bestNail = -1 THEN prev
          ELSE [prev EXCEPT
                  !.darknessArray =
                      SubtractLoop(NailLine(prev.nails, prev.nailCount,
                                            prev.currentNail, st.bestNail),
                                   1, prev.darknessArray, prev.width, prev.height),
                  !.path = Pushed(prev.path, Connection(prev.currentNail, st.bestNail)),
                  !.currentNail = st.bestNail]

\* C28 (as claimed): the path a run holds is the path the build without
\* a cache holds after as many iterations.
C28_CacheTransparent ==
    \A r \in Runs :
        runs[r].pc # "idle" =>
            runs[r].path = FreshBuild(FreshStart(r), Len(runs[r].path)).path

\* C24: every invocation that has started reaches its end, given that
\* its timers fire; and the step that ends it publishes its path as it
\* is, sets the progress to 100 and clears isProcessing and the
\* processing flag, whichever of the three exits was taken.
C24_Finishes ==
    /\ \A r \in Runs : (runs[r].pc # "idle") ~> (runs[r].pc = "done")
    /\ [][\A r \in Runs :
            Finishes(r) =>
                /\ runs'[r].exit \in {"budget", "cancelled", "nocandidate"}
                /\ runs'[r].path = runs[r].path
                /\ stringPath' = runs[r].path
                /\ progress' = 100
                /\ ~isProcessing'
                /\ ~processingRef']_vars

\* both invocations have ended, one by cancellation after a yield and
\* one with its whole budget, and the flags are clear
C24_Witness ==
    \E a, b \in Runs :
        /\ runs[a].pc = "done" /\ runs[a].exit = "cancelled" /\ runs[a].path # << >>
        /\ runs[b].pc = "done" /\ runs[b].exit = "budget"
        /\ Len(runs[b].path) = runs[b].stringCount
        /\ progress = 100
        /\ ~isProcessing /\ ~processingRef

\* C25 (as claimed): while the path is not empty the canvas shows what a
\* full redraw of the first targetStep connections with the current
\* colours, opacity, show-image setting and pin layout shows.
C25_CanvasIsFullRedraw ==
    (Len(stringPath) > 0 /\ Mounted /\ active = 0) => canvas = FullRedraw(Props)

\* C27 (as claimed): no drawing loop of the render effect reads a pin
\* that the layout of the current pin count does not have.
C27_PinIndicesValid == canvas.fault # "pin"

\* C29 (as claimed): currentStep lies in 0..stringPath.length, and no
\* drawing loop of the render effect reads a path entry beyond the end.
C29_StepWithinPath ==
    /\ currentStep \in 0..Len(stringPath)
    /\ canvas.fault # "entry"

\* C22: while no image data is loaded no step starts a run: the path, the
\* progress, the current step and both processing flags stay as they are
\* and every invocation stays idle, also in a step that calls
\* generateStringArt.
C22_NoImageNoStart ==
    [][~imageData.loaded =>
          /\ stringPath' = stringPath
          /\ progress' = progress
          /\ currentStep' = currentStep
          /\ isProcessing' = isProcessing
          /\ processingRef' = processingRef
          /\ \A r \in Runs : runs'[r].pc = "idle"]_vars

\* generateStringArt has been called without image data and has returned
C22_Witness ==
    /\ probe.fn = "generateStringArt"
    /\ ~imageData.loaded
    /\ stringPath = << >> /\ progress = 0 /\ currentStep = 0
    /\ ~isProcessing /\ ~processingRef
    /\ \A r \in Runs : runs[r].pc = "idle"

\* C30: every call of the memoized calculateNailPositions returns the
\* layout computed from scratch for its own arguments, whatever calls and
\* invalidations came before.
C30_MemoTransparent ==
    probe.fn = "memoized" =>
        probe.out = calculateNailPositions(probe.width, probe.height, probe.count)

\* a call answered from the refs, for a layout with pins, equal to the
\* layout computed from scratch
C30_Witness ==
    /\ probe.fn = "memoized"
    /\ probe.hit
    /\ probe.count > 1
    /\ probe.out = calculateNailPositions(probe.width, probe.height, probe.count)

====
